---------------------------- MODULE Spec2Model ----------------------------
(***************************************************************************)
(* Model of tools/code_navigator.py: a command line tool that parses       *)
(* source files with tree-sitter and reports the function and class/type   *)
(* definitions it finds, for one file or for every file under a directory. *)
(*                                                                         *)
(* Representation.  A string that the program inspects character by        *)
(* character (a file name, an extension) is a sequence of one-character    *)
(* strings.  A path string is the sequence of its "/"-separated segments,  *)
(* so "./d/a.py" is << <<".">>, <<"d">>, <<"a",".","p","y">> >> and        *)
(* "d/a.py/" ends with the empty segment << >>.  Only relative paths are   *)
(* modelled.  The bytes of a file are represented by the syntax tree that  *)
(* tree-sitter builds for them: a sequence of declaration nodes in         *)
(* document order, each with the index of its nearest enclosing            *)
(* declaration (0 at top level), its span and its name node.  A point is   *)
(* <<row, column>> with 0-indexed rows, as tree-sitter reports it; the     *)
(* column is never read by the program and is held at 0.                   *)
(*                                                                         *)
(* Environment.  tree-sitter, argparse, pathlib and os.walk behave as the  *)
(* code uses them: Parser.set_language accepts the grammar, parse never    *)
(* raises, query.captures returns (node, capture name) pairs in document   *)
(* order, argparse exits with status 2 on a command line it rejects and    *)
(* with status 0 after -h, and os.walk skips what it cannot list.  Which   *)
(* files exist, which of them cannot be read and which grammar packages    *)
(* are not installed is fixed when the process starts; the grammars of     *)
(* files that do not exist are never asked for and are left installed.     *)
(***************************************************************************)
EXTENDS Integers, Sequences, FiniteSets, TLC

VARIABLES
    files,        \* file system: the paths of the regular files that exist
    unreadable,   \* file system: the files whose open() raises
    missing,      \* the grammars whose tree_sitter_<lang> package fails to import
    argv,         \* the command line arguments after the program name
    pc,           \* position of the run
    target_path,  \* main: Path(args.path); << >> before it is assigned
    result,       \* main: result / scan_directory: structure
    walk,         \* os.walk: directories still to be yielded
    root,         \* os.walk: the directory being listed
    listing,      \* os.walk: names of `files` not yet iterated in `root`
    opened,       \* history: file path -> the syntax tree of the bytes read
    stdout,       \* what has been written to standard output
    stderr,       \* what has been written to standard error
    exit_status   \* process exit status; -1 while the process runs

vars == <<files, unreadable, missing, argv, pc, target_path, result, walk,
          root, listing, opened, stdout, stderr, exit_status>>

(***************************************************************************)
(* Bounds of the model.                                                    *)
(***************************************************************************)
MaxFiles == 2   \* files that exist under the scanned directory
MaxNodes == 2   \* declaration nodes in a syntax tree (SpecX)
MaxRow == 2     \* largest 0-indexed row of a syntax tree (SpecX)

(***************************************************************************)
(* Strings and paths.                                                      *)
(***************************************************************************)
EndsWith(s, t) ==
    /\ Len(s) >= Len(t)
    /\ SubSeq(s, Len(s) - Len(t) + 1, Len(s)) = t

\* pathlib's PurePath.suffix of a final component: the text from the last
\* dot on, unless there is no dot, or the dot is the first or the last
\* character of the name.
suffix(name) ==
    LET dots == {i \in 1..Len(name) : name[i] = "."}
        j == IF dots = {} THEN 0 ELSE CHOOSE i \in dots : \A k \in dots : k <= i
    IN  IF 1 < j /\ j < Len(name) THEN SubSeq(name, j, Len(name)) ELSE << >>

\* Path(text): empty segments (repeated and trailing slashes) and "."
\* segments are dropped, ".." is kept, and the empty path is ".".
Path(raw) ==
    LET kept == SelectSeq(raw, LAMBDA s : s # << >> /\ s # <<".">>)
    IN  IF kept = << >> THEN << <<".">> >> ELSE kept

EXT_TO_LANG ==
    (<<".", "p", "y">> :> "python") @@
    (<<".", "j", "s">> :> "javascript") @@
    (<<".", "g", "o">> :> "go") @@
    (<<".", "c">> :> "c") @@
    (<<".", "c", "p", "p">> :> "cpp") @@
    (<<".", "h">> :> "c") @@
    (<<".", "h", "p", "p">> :> "cpp")

\* EXT_TO_LANG.get(ext); "None" is Python's None.
EXT_TO_LANG_get(ext) ==
    IF ext \in DOMAIN EXT_TO_LANG THEN EXT_TO_LANG[ext] ELSE "None"

(***************************************************************************)
(* The file system the tool runs in: a directory d with a subdirectory s,  *)
(* and up to MaxFiles regular files among the following.                   *)
(***************************************************************************)
Dirs == { << <<"d">> >>, << <<"d">>, <<"s">> >> }

Universe ==
    { << <<"d">>, <<"a", ".", "p", "y">> >>,
      << <<"d">>, <<"b", ".", "j", "s">> >>,
      << <<"d">>, <<"c", ".", "g", "o">> >>,
      << <<"d">>, <<"n", ".", "t", "x", "t">> >>,
      << <<"d">>, <<"s">>, <<"d", ".", "c">> >>,
      << <<"d">>, <<"s">>, <<"e", ".", "h">> >>,
      << <<"d">>, <<"s">>, <<"f", ".", "c", "p", "p">> >>,
      << <<"d">>, <<"s">>, <<"g", ".", "h", "p", "p">> >>,
      << <<"d">>, <<"s">>, <<".", "p", "y">> >> }

MissingPath == << <<"d">>, <<"z", ".", "p", "y">> >>

HelpFlag == << <<"-", "h">> >>

exists(p) == p \in Dirs \/ p \in files

is_file(p) == p \in files

\* The names os.walk lists as `files` / `dirs` for a directory.
FilesIn(dir) == {p[Len(p)] : p \in {q \in files : SubSeq(q, 1, Len(q) - 1) = dir}}

SubdirsOf(dir) ==
    IF dir = << <<"d">> >> THEN << << <<"d">>, <<"s">> >> >> ELSE << >>

LangOf(p) == EXT_TO_LANG_get(suffix(p[Len(p)]))


(***************************************************************************)
(* Syntax trees, as tree-sitter's grammars build them.                     *)
(***************************************************************************)
Point(row) == <<row, 0>>

\* The text of a declaration's name node, fixed by the kind of declaration.
NameText(type) ==
    IF type \in {"function_definition", "function_declaration"} THEN "f"
    ELSE IF type \in {"method_definition", "method_declaration"} THEN "m"
    ELSE "T"

\* A declaration node spanning rows s..e whose name is on row n.
Node(type, parent, s, n, e) ==
    [type |-> type, parent |-> parent,
     start_point |-> Point(s), end_point |-> Point(e),
     name |-> [text |-> NameText(type),
               start_point |-> Point(n), end_point |-> Point(n)]]

FuncType(lang) ==
    IF lang \in {"javascript", "go"} THEN "function_declaration"
    ELSE "function_definition"

ClassType(lang) ==
    CASE lang = "python" -> "class_definition"
      [] lang = "javascript" -> "class_declaration"
      [] lang = "go" -> "type_declaration"
      [] lang = "c" -> "struct_specifier"
      [] OTHER -> "class_specifier"

\* The declaration node types of each grammar that carry a name.
NodeTypes(lang) ==
    CASE lang = "python" -> {"function_definition", "class_definition"}
      [] lang = "javascript" ->
            {"function_declaration", "class_declaration", "method_definition"}
      [] lang = "go" ->
            {"function_declaration", "type_declaration", "method_declaration"}
      [] OTHER -> {FuncType(lang), ClassType(lang)}

\* Where each grammar lets a declaration stand; "module" is the top level.
CanNest(lang, type, parentType) ==
    CASE lang = "javascript" ->
            IF type = "method_definition"
            THEN parentType = "class_declaration"
            ELSE parentType # "class_declaration"
      [] lang = "go" ->
            IF type = "type_declaration"
            THEN TRUE
            ELSE parentType = "module"
      [] OTHER -> TRUE

RECURSIVE Ancestors(_, _)
Ancestors(t, k) == IF k = 0 THEN {} ELSE {k} \cup Ancestors(t, t[k].parent)

\* Node nd may follow the nodes of t in document order.
Extends(lang, t, nd) ==
    /\ nd.parent \in {0} \cup Ancestors(t, Len(t))
    /\ CanNest(lang, nd.type,
               IF nd.parent = 0 THEN "module" ELSE t[nd.parent].type)
    /\ \A i \in 1..Len(t) :
          /\ t[i].start_point[1] <= nd.start_point[1]
          /\ IF i \in Ancestors(t, nd.parent)
             THEN nd.end_point[1] <= t[i].end_point[1]
             ELSE t[i].end_point[1] <= nd.start_point[1]

Nodes(lang) ==
    {Node(ty, p, s, n, e) :
        ty \in NodeTypes(lang), p \in 0..(MaxNodes - 1),
        s \in 0..MaxRow, n \in 0..MaxRow, e \in 0..MaxRow}

RECURSIVE TreesOfLen(_, _)
TreesOfLen(lang, k) ==
    IF k = 0 THEN {<< >>}
    ELSE {Append(q[1], q[2]) :
            q \in {r \in TreesOfLen(lang, k - 1) \X Nodes(lang) :
                     /\ r[2].start_point[1] <= r[2].name.start_point[1]
                     /\ r[2].name.end_point[1] <= r[2].end_point[1]
                     /\ Extends(lang, r[1], r[2])}}

\* Every syntax tree of at most MaxNodes declarations within MaxRow rows.
RichTrees(lang) == UNION {TreesOfLen(lang, k) : k \in 0..MaxNodes}

\* A file with nothing in it, and a file with a function f on rows 0..2
\* that encloses a class/type declaration T on rows 1..2.
SmallTrees(lang) ==
    { << >>,
      <<Node(FuncType(lang), 0, 0, 0, 2), Node(ClassType(lang), 1, 1, 1, 2)>> }

(***************************************************************************)
(* get_parser and extract_definitions.                                     *)
(***************************************************************************)
\* The parser bound to the grammar, named by the grammar; "None" when the
\* grammar is not one of the five or its package cannot be imported.
get_parser(lang_name) ==
    IF /\ lang_name \in {"python", "javascript", "go", "c", "cpp"}
       /\ lang_name \notin missing
    THEN lang_name
    ELSE "None"

\* A variant of query in which the C and C++ branches are filled in with a
\* function pattern instead of falling through to the else branch.
query_with_c(lang_name) ==
    CASE lang_name = "python" ->
            << [node |-> "function_definition", tag |-> "func"],
               [node |-> "class_definition", tag |-> "class"] >>
      [] lang_name \in {"javascript", "go"} ->
            << [node |-> "function_declaration", tag |-> "func"],
               [node |-> ClassType(lang_name), tag |-> "class"] >>
      [] lang_name \in {"c", "cpp"} ->
            << [node |-> "function_definition", tag |-> "func"] >>
      [] OTHER -> << >>

\* The query text of each language: which node type each pattern matches
\* and the prefix of its two capture names (@func.def, @func.name, ...).
\* << >> is the else branch, which has no query.
query(lang_name) ==
    CASE lang_name = "python" ->
            << [node |-> "function_definition", tag |-> "func"],
               [node |-> "class_definition", tag |-> "class"] >>
      [] lang_name = "javascript" ->
            << [node |-> "function_declaration", tag |-> "func"],
               [node |-> "class_declaration", tag |-> "class"] >>
      [] lang_name = "go" ->
            << [node |-> "function_declaration", tag |-> "func"],
               [node |-> "type_declaration", tag |-> "class"] >>
      [] OTHER -> << >>

\* query.captures(root_node): for every node of the tree, at any depth,
\* that a pattern matches, the declaration node under <prefix>.def and then
\* its name node under <prefix>.name, in document order.  A capture name
\* "func.name" is the pair <<"func", "name">>.
RECURSIVE capturesFrom(_, _, _)
capturesFrom(q, tree, i) ==
    IF i > Len(tree) THEN << >>
    ELSE LET hit == {k \in 1..Len(q) : q[k].node = tree[i].type}
             here ==
               IF hit = {} THEN << >>
               ELSE LET k == CHOOSE h \in hit : TRUE
                    IN  << << [text |-> "<declaration>",
                               start_point |-> tree[i].start_point,
                               end_point |-> tree[i].end_point],
                              <<q[k].tag, "def">> >>,
                           << tree[i].name, <<q[k].tag, "name">> >> >>
         IN  here \o capturesFrom(q, tree, i + 1)

\* A variant of captures that matches the patterns against the children of
\* the root only.
captures_top_level(q, tree) ==
    capturesFrom(q, SelectSeq(tree, LAMBDA n : n.parent = 0), 1)

captures(q, tree) == capturesFrom(q, tree, 1)

\* A variant of definition that reports the parser's 0-indexed rows as they
\* are.
definition_zero_indexed(node, tag) ==
    [type |-> IF tag[1] = "func" THEN "function" ELSE "class",
     name |-> node.text,
     start_line |-> node.start_point[1],
     end_line |-> node.end_point[1]]

\* The dictionary appended for one capture.
definition(node, tag) ==
    [type |-> IF tag[1] = "func" THEN "function" ELSE "class",
     name |-> node.text,
     start_line |-> node.start_point[1] + 1,
     end_line |-> node.end_point[1] + 1]

\* The loop over the captures: one dictionary per "*.name" capture.
RECURSIVE definitionsFrom(_, _)
definitionsFrom(caps, i) ==
    IF i > Len(caps) THEN << >>
    ELSE (IF caps[i][2][2] = "name"
          THEN <<definition(caps[i][1], caps[i][2])>>
          ELSE << >>) \o definitionsFrom(caps, i + 1)

\* A variant of extract_definitions that opens the file before it asks for
\* the parser.
extract_read_first(file_path, lang_name, content) ==
    IF file_path \in unreadable
    THEN << [error |-> "Permission denied"] >>
    ELSE IF get_parser(lang_name) = "None" THEN << >>
    ELSE IF query(lang_name) = << >> THEN << >>
    ELSE definitionsFrom(captures(query(lang_name), content), 1)

\* extract_definitions(file_path, lang_name), where content is the syntax
\* tree of the bytes that open(file_path).read() returns when it succeeds.
extract_definitions(file_path, lang_name, content) ==
    IF get_parser(lang_name) = "None" THEN << >>
    ELSE IF file_path \in unreadable
         THEN << [error |-> "Permission denied"] >>
    ELSE IF query(lang_name) = << >> THEN << >>
    ELSE definitionsFrom(captures(query(lang_name), content), 1)

\* Whether extract_definitions reaches open(): the parser was obtained.
Opens(lang_name) == get_parser(lang_name) # "None"

(***************************************************************************)
(* The run: module import, main, scan_directory.                           *)
(***************************************************************************)
\* The spellings of a file's path that a caller may pass on the command
\* line: "d/a.py", "./d/a.py" and "d/a.py/".
Spellings(p) == {p, << <<".">> >> \o p, Append(p, << >>)}

Argvs(fl) ==
    {<< >>, <<HelpFlag>>, << << <<"d">> >>, << <<"d">> >> >>}
    \cup {<<t>> : t \in {<< <<"d">> >>, MissingPath}
                        \cup UNION {Spellings(p) : p \in fl}}

Init ==
    /\ files \in {F \in SUBSET Universe : Cardinality(F) <= MaxFiles}
    /\ unreadable \in SUBSET files
    /\ missing \in SUBSET ({LangOf(p) : p \in files} \ {"None"})
    /\ argv \in Argvs(files)
    /\ pc = "import"
    /\ target_path = << >>
    /\ result = << >>
    /\ walk = << >>
    /\ root = << >>
    /\ listing = {}
    /\ opened = << >>
    /\ stdout = << >>
    /\ stderr = << >>
    /\ exit_status = -1

\* sys.exit(code), or main returning (code 0).
Exit(code) ==
    /\ pc' = "done"
    /\ exit_status' = code

\* import tree_sitter succeeds.
ImportOK ==
    /\ pc = "import"
    /\ pc' = "parse_args"
    /\ UNCHANGED <<files, unreadable, missing, argv, target_path, result,
                   walk, root, listing, opened, stdout, stderr, exit_status>>

\* import tree_sitter raises ImportError.
ImportFail ==
    /\ pc = "import"
    /\ stderr' = Append(stderr, "Error: tree-sitter not installed")
    /\ Exit(1)
    /\ UNCHANGED <<files, unreadable, missing, argv, target_path, result,
                   walk, root, listing, opened, stdout>>

\* parser.parse_args() given -h: argparse prints the help and exits 0.
ParseHelp ==
    /\ pc = "parse_args"
    /\ argv = <<HelpFlag>>
    /\ stdout' = Append(stdout, [kind |-> "help", report |-> << >>])
    /\ Exit(0)
    /\ UNCHANGED <<files, unreadable, missing, argv, target_path, result,
                   walk, root, listing, opened, stderr>>

\* parser.parse_args() given no path or more than one: argparse prints the
\* usage to standard error and exits 2.
ParseError ==
    /\ pc = "parse_args"
    /\ argv # <<HelpFlag>>
    /\ Len(argv) # 1
    /\ stderr' = Append(stderr, "usage")
    /\ Exit(2)
    /\ UNCHANGED <<files, unreadable, missing, argv, target_path, result,
                   walk, root, listing, opened, stdout>>

\* parser.parse_args() given one path; target_path = Path(args.path).
ParseOK ==
    /\ pc = "parse_args"
    /\ argv # <<HelpFlag>>
    /\ Len(argv) = 1
    /\ target_path' = Path(argv[1])
    /\ pc' = "exists"
    /\ UNCHANGED <<files, unreadable, missing, argv, result, walk, root,
                   listing, opened, stdout, stderr, exit_status>>

\* A variant of PathMissing whose print lacks file=sys.stderr.
PathMissing_to_stdout ==
    /\ pc = "exists"
    /\ ~exists(target_path)
    /\ stdout' = Append(stdout, [kind |-> "error", report |-> << >>])
    /\ Exit(1)
    /\ UNCHANGED <<files, unreadable, missing, argv, target_path, result,
                   walk, root, listing, opened, stderr>>

\* if not target_path.exists(): print to stderr, sys.exit(1).
PathMissing ==
    /\ pc = "exists"
    /\ ~exists(target_path)
    /\ stderr' = Append(stderr, "Error: does not exist")
    /\ Exit(1)
    /\ UNCHANGED <<files, unreadable, missing, argv, target_path, result,
                   walk, root, listing, opened, stdout>>

\* The trees open(file_path).read() may hand to the parser; << >> alone
\* when the file is never read.
Reads(file_path, lang, rich) ==
    IF Opens(lang) /\ file_path \notin unreadable
    THEN (IF rich THEN RichTrees(lang) ELSE SmallTrees(lang))
    ELSE {<< >>}

Opened(file_path, lang, content) ==
    IF Opens(lang) /\ file_path \notin unreadable
    THEN (file_path :> content) @@ opened
    ELSE opened

\* A variant of single_report that, like scan_directory, leaves out a file
\* with no definitions.
single_report_if_defs(file_path, defs) ==
    IF defs # << >> THEN (file_path :> defs) ELSE << >>

\* result = {str(target_path): extract_definitions(target_path, lang)}
single_report(file_path, defs) == (file_path :> defs)

\* The single-file branch with a supported extension, up to the print.
SingleFile(rich) ==
    /\ pc = "exists"
    /\ exists(target_path)
    /\ is_file(target_path)
    /\ LET lang == EXT_TO_LANG_get(suffix(target_path[Len(target_path)]))
       IN  /\ lang # "None"
           /\ \E content \in Reads(target_path, lang, rich) :
                 /\ result' = single_report(target_path,
                                 extract_definitions(target_path, lang, content))
                 /\ opened' = Opened(target_path, lang, content)
    /\ pc' = "print"
    /\ UNCHANGED <<files, unreadable, missing, argv, target_path, walk, root,
                   listing, stdout, stderr, exit_status>>

SingleSupported == SingleFile(FALSE)

SingleSupportedRich == SingleFile(TRUE)

\* A variant of SingleUnsupported that ends with sys.exit(1).
SingleUnsupported_exit_1 ==
    /\ pc = "exists"
    /\ exists(target_path)
    /\ is_file(target_path)
    /\ EXT_TO_LANG_get(suffix(target_path[Len(target_path)])) = "None"
    /\ stderr' = Append(stderr, "Unsupported file extension")
    /\ Exit(1)
    /\ UNCHANGED <<files, unreadable, missing, argv, target_path, result,
                   walk, root, listing, opened, stdout>>

\* The single-file branch with an extension EXT_TO_LANG does not know:
\* a message on standard error, and main returns.
SingleUnsupported ==
    /\ pc = "exists"
    /\ exists(target_path)
    /\ is_file(target_path)
    /\ EXT_TO_LANG_get(suffix(target_path[Len(target_path)])) = "None"
    /\ stderr' = Append(stderr, "Unsupported file extension")
    /\ Exit(0)
    /\ UNCHANGED <<files, unreadable, missing, argv, target_path, result,
                   walk, root, listing, opened, stdout>>

\* print(json.dumps(result, indent=2)), the last statement of both the
\* single-file and the directory branch; main returns.
PrintReport ==
    /\ pc = "print"
    /\ stdout' = Append(stdout, [kind |-> "report", report |-> result])
    /\ Exit(0)
    /\ UNCHANGED <<files, unreadable, missing, argv, target_path, result,
                   walk, root, listing, opened, stderr>>

\* The else branch: scan_directory(target_path) starts with structure = {}
\* and os.walk(path).
ScanStart ==
    /\ pc = "exists"
    /\ exists(target_path)
    /\ ~is_file(target_path)
    /\ result' = << >>
    /\ walk' = <<target_path>>
    /\ root' = << >>
    /\ listing' = {}
    /\ pc' = "walk"
    /\ UNCHANGED <<files, unreadable, missing, argv, target_path, opened,
                   stdout, stderr, exit_status>>

\* os.walk yields the next (root, dirs, files), top-down.
WalkNext ==
    /\ pc = "walk"
    /\ listing = {}
    /\ walk # << >>
    /\ root' = Head(walk)
    /\ listing' = FilesIn(Head(walk))
    /\ walk' = SubdirsOf(Head(walk)) \o Tail(walk)
    /\ UNCHANGED <<files, unreadable, missing, argv, pc, target_path, result,
                   opened, stdout, stderr, exit_status>>

\* A variant of store without the `if defs` test.
store_always(structure, file_path, defs) == (file_path :> defs) @@ structure

\* if defs: structure[str(file_path)] = defs
store(structure, file_path, defs) ==
    IF defs # << >> THEN (file_path :> defs) @@ structure ELSE structure

\* A variant of VisitFile in which a file that cannot be parsed or read
\* ends the walk, as an exception escaping extract_definitions would.
VisitFile_abort ==
    /\ pc = "walk"
    /\ \E file \in listing :
          LET file_path == Append(root, file)
              known == \E ext \in DOMAIN EXT_TO_LANG : EndsWith(file, ext)
              lang == EXT_TO_LANG_get(suffix(file))
          IN  IF known /\ lang # "None"
              THEN IF Opens(lang) /\ file_path \notin unreadable
                   THEN /\ listing' = listing \ {file}
                        /\ walk' = walk
                        /\ \E content \in Reads(file_path, lang, FALSE) :
                              /\ result' = store(result, file_path,
                                    extract_definitions(file_path, lang, content))
                              /\ opened' = Opened(file_path, lang, content)
                   ELSE /\ listing' = {}
                        /\ walk' = << >>
                        /\ UNCHANGED <<result, opened>>
              ELSE /\ listing' = listing \ {file}
                   /\ UNCHANGED <<walk, result, opened>>
    /\ UNCHANGED <<files, unreadable, missing, argv, pc, target_path, root,
                   stdout, stderr, exit_status>>

\* One iteration of `for file in files`, in whatever order the listing
\* yields the names.
VisitFile ==
    /\ pc = "walk"
    /\ \E file \in listing :
          LET file_path == Append(root, file)
              known == \E ext \in DOMAIN EXT_TO_LANG : EndsWith(file, ext)
              lang == EXT_TO_LANG_get(suffix(file))
          IN  /\ listing' = listing \ {file}
              /\ IF known /\ lang # "None"
                 THEN \E content \in Reads(file_path, lang, FALSE) :
                         /\ result' = store(result, file_path,
                               extract_definitions(file_path, lang, content))
                         /\ opened' = Opened(file_path, lang, content)
                 ELSE UNCHANGED <<result, opened>>
    /\ UNCHANGED <<files, unreadable, missing, argv, pc, target_path, walk,
                   root, stdout, stderr, exit_status>>

\* os.walk is exhausted: return structure.
ScanReturn ==
    /\ pc = "walk"
    /\ listing = {}
    /\ walk = << >>
    /\ pc' = "print"
    /\ UNCHANGED <<files, unreadable, missing, argv, target_path, result,
                   walk, root, listing, opened, stdout, stderr, exit_status>>

Next ==
    \/ ImportOK
    \/ ImportFail
    \/ ParseHelp
    \/ ParseError
    \/ ParseOK
    \/ PathMissing
    \/ SingleSupported
    \/ SingleUnsupported
    \/ PrintReport
    \/ ScanStart
    \/ WalkNext
    \/ VisitFile
    \/ ScanReturn

Spec == Init /\ [][Next]_vars

\* The program is sequential and every statement runs to completion, so a
\* run that can take a step takes it.
FairSpec == Spec /\ WF_vars(Next)

(***************************************************************************)
(* extract_definitions as a function of the file: one readable file of a   *)
(* language that has a query, holding any syntax tree within the bounds,   *)
(* queried in single-file mode with every grammar installed.               *)
(***************************************************************************)
InitX ==
    /\ files \in {{p} : p \in {q \in Universe :
                                  LangOf(q) \in {"python", "javascript", "go"}}}
    /\ unreadable = {}
    /\ missing = {}
    /\ argv \in {<<p>> : p \in files}
    /\ pc = "import"
    /\ target_path = << >>
    /\ result = << >>
    /\ walk = << >>
    /\ root = << >>
    /\ listing = {}
    /\ opened = << >>
    /\ stdout = << >>
    /\ stderr = << >>
    /\ exit_status = -1

NextX ==
    \/ ImportOK
    \/ ParseOK
    \/ SingleSupportedRich
    \/ PrintReport

SpecX == InitX /\ [][NextX]_vars

(***************************************************************************)
(* Vocabulary of the properties.                                           *)
(***************************************************************************)
IsDefinitionRecord(r) ==
    /\ DOMAIN r = {"type", "name", "start_line", "end_line"}
    /\ r.type \in {"function", "class"}

IsErrorRecord(r) == DOMAIN r = {"error"}

ErrorList == << [error |-> "Permission denied"] >>

\* The final component of a path has an extension EXT_TO_LANG knows.
Supported(p) == LangOf(p) # "None"

CFamily(p) ==
    suffix(p[Len(p)]) \in
        {<<".", "c">>, <<".", "h">>, <<".", "c", "p", "p">>, <<".", "h", "p", "p">>}

\* The run got past the import of tree_sitter.
LibraryAvailable == stderr # <<"Error: tree-sitter not installed">>

\* The command line was accepted and names one path.
OnePath == Len(argv) = 1 /\ argv # <<HelpFlag>>

\* main has built the single-file report of a file with a supported extension.
SingleReported ==
    /\ pc \in {"print", "done"}
    /\ target_path \in files
    /\ Supported(target_path)

\* main has gone through scan_directory and returned.
DirectoryDone == pc = "done" /\ target_path \in Dirs

\* The syntax tree the single-file run read, and its language.
TheTree == opened[target_path]

TheLang == LangOf(target_path)

\* The node types the language's query matches.
QueriedTypes(lang) == {query(lang)[k].node : k \in 1..Len(query(lang))}

(***************************************************************************)
(* C1.  For a file holding exactly one top-level function f whose          *)
(* declaration spans lines L..M, extract_definitions returns exactly the   *)
(* record {function, f, start_line L, end_line M}.  The code reports the   *)
(* rows of the name node instead, so this fails whenever M > L.            *)
(***************************************************************************)
C1_DeclarationSpan ==
    (/\ SingleReported
     /\ target_path \in DOMAIN opened
     /\ Len(TheTree) = 1
     /\ TheTree[1].type = FuncType(TheLang))
    => result[target_path] =
          << [type |-> "function", name |-> "f",
              start_line |-> TheTree[1].start_point[1] + 1,
              end_line |-> TheTree[1].end_point[1] + 1] >>

(***************************************************************************)
(* C2.  As claimed: after scan_directory every key of the report maps to   *)
(* a non-empty list of definition records only.                            *)
(***************************************************************************)
C2_OnlyDefinitionLists ==
    DirectoryDone =>
        \A p \in DOMAIN result :
            /\ result[p] # << >>
            /\ \A i \in 1..Len(result[p]) : IsDefinitionRecord(result[p][i])

\* C2, amended.  During and after scan_directory every key of the report
\* is a file under the directory and maps to a non-empty list: either
\* definition records only, or the single error record of a file whose
\* read failed.  A file that yields the empty list has no key.
C2_NoEmptyLists ==
    (pc \in {"walk", "print", "done"} /\ target_path \in Dirs) =>
        \A p \in DOMAIN result :
            /\ p \in files
            /\ result[p] # << >>
            /\ \/ \A i \in 1..Len(result[p]) : IsDefinitionRecord(result[p][i])
               \/ result[p] = ErrorList /\ p \in unreadable

C2_Witness ==
    /\ DirectoryDone
    /\ \E p \in DOMAIN result : result[p] = ErrorList
    /\ \E q \in DOMAIN opened : opened[q] = << >> /\ q \notin DOMAIN result

(***************************************************************************)
(* C3.  As claimed: a .c, .h, .cpp or .hpp file yields the empty list and  *)
(* never an error record, in single-file and in directory mode, readable   *)
(* or not, grammar loadable or not.                                        *)
(***************************************************************************)
C3_CFamilyAlwaysEmpty ==
    \A p \in files :
        CFamily(p) =>
            /\ (SingleReported /\ target_path = p) => result[p] = << >>
            /\ DirectoryDone => p \notin DOMAIN result

\* C3, amended.  A .c, .h, .cpp or .hpp file never yields a definition
\* record.  It yields the empty list when it is readable or its grammar
\* package cannot be loaded, and the single error record when its grammar
\* package loads and the read fails (in directory mode the error record is
\* then stored under the file's path).
C3_CFamilyNoDefinitions ==
    \A p \in files :
        CFamily(p) =>
            LET fails == p \in unreadable /\ LangOf(p) \notin missing
            IN  /\ (SingleReported /\ target_path = p) =>
                      result[p] = IF fails THEN ErrorList ELSE << >>
                /\ DirectoryDone =>
                      IF fails
                      THEN p \in DOMAIN result /\ result[p] = ErrorList
                      ELSE p \notin DOMAIN result

C3_Witness ==
    /\ pc = "done"
    /\ SingleReported
    /\ CFamily(target_path)
    /\ target_path \in DOMAIN opened
    /\ Len(TheTree) > 0
    /\ result[target_path] = << >>

(***************************************************************************)
(* C4.  As claimed: in single-file mode an unreadable file with a          *)
(* supported extension is reported as exactly one error record, whether    *)
(* or not the grammar package of the extension can be loaded.              *)
(***************************************************************************)
C4_UnreadableIsError ==
    (SingleReported /\ target_path \in unreadable) =>
        /\ DOMAIN result = {target_path}
        /\ Len(result[target_path]) = 1
        /\ IsErrorRecord(result[target_path][1])

\* C4, amended.  In single-file mode an unreadable file with a supported
\* extension is reported as exactly one error record when the grammar
\* package of its extension can be loaded, and as the empty list when it
\* cannot (the file is then never opened); in both cases the run ends
\* normally, with the report printed and exit status 0.
C4_UnreadableIsErrorIfGrammar ==
    (SingleReported /\ target_path \in unreadable) =>
        /\ result = (target_path :>
                        IF TheLang \in missing THEN << >> ELSE ErrorList)
        /\ pc = "done" =>
              /\ exit_status = 0
              /\ stdout = <<[kind |-> "report", report |-> result]>>

C4_Witness ==
    /\ pc = "done"
    /\ SingleReported
    /\ target_path \in unreadable
    /\ TheLang \notin missing
    /\ stdout = <<[kind |-> "report",
                   report |-> (target_path :> ErrorList)]>>

(***************************************************************************)
(* C5.  As claimed: the single-file report has exactly one key, equal to   *)
(* the path string that was queried.                                       *)
(***************************************************************************)
C5_KeyIsQueriedString ==
    SingleReported => DOMAIN result = {argv[1]}

\* C5, amended.  The single-file report has exactly one key, the queried
\* path as Path() normalises it ("." segments, repeated and trailing
\* slashes removed), which is the queried string itself when that is
\* already in this form; the list under it may be empty, definitions or an
\* error record; and a single-file run on a supported extension always
\* ends having printed this report.
C5_KeyIsNormalisedPath ==
    /\ SingleReported => DOMAIN result = {Path(argv[1])}
    /\ (/\ pc = "done"
        /\ LibraryAvailable
        /\ OnePath
        /\ Path(argv[1]) \in files
        /\ Supported(Path(argv[1])))
       => /\ stdout = <<[kind |-> "report", report |-> result]>>
          /\ DOMAIN result = {Path(argv[1])}

C5_Witness ==
    /\ pc = "done"
    /\ SingleReported
    /\ argv[1] # target_path
    /\ stdout = <<[kind |-> "report", report |-> (target_path :> << >>)]>>

(***************************************************************************)
(* C6.  As claimed: with the parsing library available the exit status is  *)
(* 1 exactly when the target path does not exist and 0 in every other      *)
(* terminating branch.                                                     *)
(***************************************************************************)
C6_ExitOneOnlyWhenMissing ==
    (pc = "done" /\ LibraryAvailable) =>
        exit_status = IF OnePath /\ ~exists(Path(argv[1])) THEN 1 ELSE 0

\* C6, amended.  With the parsing library available the exit status is 2
\* when the argument parser rejects the command line (no path, or more
\* than one), 1 exactly when the one path given does not exist, and 0 in
\* every other terminating branch, including the single-file branch with
\* an unsupported extension, where a message goes to standard error and
\* nothing is printed on standard output.
C6_ExitStatus ==
    (pc = "done" /\ LibraryAvailable) =>
        /\ exit_status =
              IF argv # <<HelpFlag>> /\ Len(argv) # 1 THEN 2
              ELSE IF OnePath /\ ~exists(Path(argv[1])) THEN 1
              ELSE 0
        /\ (OnePath /\ Path(argv[1]) \in files /\ ~Supported(Path(argv[1])))
           => /\ stderr = <<"Unsupported file extension">>
              /\ stdout = << >>

C6_Witness ==
    /\ pc = "done"
    /\ target_path \in files
    /\ ~Supported(target_path)
    /\ exit_status = 0
    /\ stderr = <<"Unsupported file extension">>

(***************************************************************************)
(* C7.  As claimed: on every branch of main (missing path, single file     *)
(* with a supported or an unsupported extension, directory) standard       *)
(* output is written exactly once.                                         *)
(***************************************************************************)
C7_StdoutExactlyOnce ==
    (pc = "done" /\ LibraryAvailable /\ OnePath) => Len(stdout) = 1

\* C7, amended.  Standard output is written at most once in a run, and a
\* write is the last step of the run, after every file has been
\* classified, read and extracted.  It is written exactly once on the
\* single-file branch with a supported extension and on the directory
\* branch, and never on the missing-path branch and the single-file branch
\* with an unsupported extension, whose messages go to standard error.
C7_StdoutAtMostOnceAtEnd ==
    /\ [][stdout' # stdout =>
            /\ stdout = << >>
            /\ Len(stdout') = 1
            /\ pc' = "done"
            /\ listing = {}
            /\ walk = << >>]_vars
    /\ []((pc = "done" /\ LibraryAvailable /\ OnePath) =>
            Len(stdout) = IF /\ exists(target_path)
                             /\ (is_file(target_path) => Supported(target_path))
                          THEN 1 ELSE 0)

C7_Witness ==
    /\ DirectoryDone
    /\ Cardinality(DOMAIN opened) = 2
    /\ stdout = <<[kind |-> "report", report |-> result]>>

(***************************************************************************)
(* C8.  Every definition record that extract_definitions emits has         *)
(* start_line >= 1 and end_line >= start_line.                             *)
(***************************************************************************)
C8_LinesOneIndexedOrdered ==
    \A p \in DOMAIN result :
        \A i \in 1..Len(result[p]) :
            IsDefinitionRecord(result[p][i]) =>
                /\ result[p][i].start_line >= 1
                /\ result[p][i].end_line >= result[p][i].start_line

C8_Witness ==
    /\ SingleReported
    /\ \E i \in 1..Len(result[target_path]) :
          /\ IsDefinitionRecord(result[target_path][i])
          /\ result[target_path][i].start_line = 1
    /\ \E n \in 1..Len(TheTree) : TheTree[n].name.start_point[1] = 0

(***************************************************************************)
(* C9.  As claimed: records are emitted for top-level declarations only,   *)
(* so the number of records is the number of top-level function and        *)
(* class/type declarations of the file.                                    *)
(***************************************************************************)
C9_TopLevelOnly ==
    (SingleReported /\ target_path \in DOMAIN opened) =>
        Len(result[target_path]) =
            Cardinality({i \in 1..Len(TheTree) :
                            /\ TheTree[i].parent = 0
                            /\ TheTree[i].type \in QueriedTypes(TheLang)})

\* C9, amended.  extract_definitions emits one record for every function
\* and class/type declaration that the language's query matches, at any
\* nesting depth: a declaration of a matched kind nested inside another
\* declaration produces a record too, so the number of records is the
\* number of matched declarations in the whole file, in document order.
C9_EveryDepth ==
    (SingleReported /\ target_path \in DOMAIN opened) =>
        LET hits == SelectSeq(TheTree,
                              LAMBDA n : n.type \in QueriedTypes(TheLang))
        IN  /\ Len(result[target_path]) = Len(hits)
            /\ \A i \in 1..Len(hits) :
                  /\ result[target_path][i].name = hits[i].name.text
                  /\ result[target_path][i].type =
                        IF hits[i].type = FuncType(TheLang)
                        THEN "function" ELSE "class"

C9_Witness ==
    /\ SingleReported
    /\ target_path \in DOMAIN opened
    /\ Len(TheTree) = 2
    /\ TheTree[2].parent = 1
    /\ Len(result[target_path]) = 2

(***************************************************************************)
(* C10.  In directory mode a file whose grammar package is unavailable or  *)
(* whose read fails does not abort the walk: the walk goes on through      *)
(* every remaining file and ends, and every other recognised file that     *)
(* has definitions is in the final report with the list extracted from     *)
(* that file alone.                                                        *)
(***************************************************************************)
C10_Complete ==
    /\ listing = {}
    /\ walk = << >>
    /\ \A p \in files :
          (Supported(p) /\ LangOf(p) \notin missing /\ p \notin unreadable) =>
              /\ p \in DOMAIN opened
              /\ LET defs == extract_definitions(p, LangOf(p), opened[p])
                 IN  defs # << >> => (p \in DOMAIN result /\ result[p] = defs)

C10_WalkSurvivesFailures == (pc = "walk") ~> (pc = "done" /\ C10_Complete)

C10_Witness ==
    /\ DirectoryDone
    /\ \E p \in files :
          /\ Supported(p)
          /\ (LangOf(p) \in missing \/ p \in unreadable)
    /\ \E q \in DOMAIN result :
          /\ q \in DOMAIN opened
          /\ Len(result[q]) = 2
          /\ IsDefinitionRecord(result[q][1])
=============================================================================
